---- MODULE Spec2Model ----
(***************************************************************************)
(* The blog backend: the posts table behind a SQLite pool and the five     *)
(* axum handlers of backend/src/handlers.rs (list_posts, get_post,         *)
(* create_post, update_post, delete_post), with the error mapping of       *)
(* backend/src/errors.rs and the payload types of backend/src/models.rs.   *)
(*                                                                         *)
(* A string is a sequence of characters; every character has a UTF-8 byte  *)
(* width, so that String::len() (bytes) and the number of characters are   *)
(* different functions.  An Option is a sequence of length 0 (None) or 1    *)
(* (Some).                                                                 *)
(***************************************************************************)
EXTENDS Integers, Sequences, FiniteSets, TLC

VARIABLES
    posts,      \* the rows of table posts
    clock,      \* the reading CURRENT_TIMESTAMP gives now
    resp,       \* the response to the request handled last
    pending     \* a list_posts call suspended between its two statements

vars == <<posts, clock, resp, pending>>

(***************************************************************************)
(* Bounds of the model.                                                    *)
(***************************************************************************)
MaxId == 2          \* largest row id handed out under Spec
MaxListId == 3      \* largest row id handed out under SpecList
MaxClock == 1       \* last clock reading
IntBits == 16       \* bits of the signed integer type of page and per_page

MaxInt == 2 ^ (IntBits - 1) - 1
MinInt == 0 - 2 ^ (IntBits - 1)

(***************************************************************************)
(* Option and strings.                                                     *)
(***************************************************************************)
None == << >>
Some(x) == << x >>
is_some(o) == Len(o) = 1

ByteLen(ch) == IF ch = "e_acute" THEN 2 ELSE 1

RECURSIVE len(_)
len(s) == IF Len(s) = 0 THEN 0 ELSE ByteLen(Head(s)) + len(Tail(s))

is_empty(s) == len(s) = 0

(***************************************************************************)
(* Request bodies: the JSON a client sends, every field an Option.         *)
(***************************************************************************)
ShortTitle == <<"a", "b">>              \* 2 characters, 2 bytes
AccentTitle == <<"e_acute", "a">>       \* 2 characters, 3 bytes
LongTitle == <<"a", "b", "c">>          \* 3 characters, 3 bytes

Body(t, c, a, s) == [ title |-> t, content |-> c, author |-> a, status |-> s ]

\* Bodies that satisfy the three checks of create_post, with and without status.
AcceptedCreates ==
    { Body(Some(t), Some(<<"x">>), Some(<<"y">>), s) :
        t \in { AccentTitle, LongTitle }, s \in { None, Some("published") } }

\* One body per check of create_post that rejects it, and one that fails all.
RejectedCreates ==
    { Body(Some(ShortTitle), Some(<<"x">>), Some(<<"y">>), None),
      Body(Some(LongTitle), Some(<< >>), Some(<<"y">>), None),
      Body(Some(LongTitle), Some(<<"x">>), Some(<< >>), None),
      Body(Some(ShortTitle), Some(<< >>), Some(<< >>), None) }

\* Json<CreatePost> reaches the handler only with the three required fields.
CreateBodies == AcceptedCreates \cup RejectedCreates

\* Every combination of absent and present fields, and a title that is too short.
UpdateBodies ==
    { Body(t, c, a, s) :
        t \in { None, Some(LongTitle) }, c \in { None, Some(<< >>) },
        a \in { None, Some(<< >>) }, s \in { None, Some("published") } }
    \cup { Body(Some(ShortTitle), None, None, None),
           Body(Some(ShortTitle), Some(<< >>), Some(<< >>), Some("published")) }

default_status == "draft"

CreatePost(b) ==
    [ title |-> b.title[1], content |-> b.content[1], author |-> b.author[1],
      status |-> IF is_some(b.status) THEN b.status[1] ELSE default_status ]

UpdatePost(b) == b

(***************************************************************************)
(* Errors and responses.                                                   *)
(***************************************************************************)
into_response(err) ==
    CASE err = "NotFound" -> 404
      [] err = "DatabaseError" -> 500
      [] err = "ValidationError" -> 400
      [] err = "InternalError" -> 500

NoPage == [ page |-> 0, per_page |-> 0, total |-> 0 ]

Failure(op, id, req, err, msg) ==
    [ op |-> op, id |-> id, req |-> req, status |-> into_response(err),
      error |-> err, msg |-> msg, body |-> << >>, paging |-> NoPage ]

Success(op, id, req, code, body) ==
    [ op |-> op, id |-> id, req |-> req, status |-> code,
      error |-> "", msg |-> "", body |-> body, paging |-> NoPage ]

NoResponse ==
    [ op |-> "none", id |-> 0, req |-> None, status |-> 0,
      error |-> "", msg |-> "", body |-> << >>, paging |-> NoPage ]

(***************************************************************************)
(* The posts table.  Every statement executes: faults of the pool or the   *)
(* disk are outside the model, so the only sqlx error is RowNotFound.       *)
(***************************************************************************)
Ids(rows) == { r.id : r \in rows }

Max(a, b) == IF a >= b THEN a ELSE b
Min(a, b) == IF a <= b THEN a ELSE b

\* INTEGER PRIMARY KEY: one more than the largest id in the table.
NextRowId(rows) ==
    IF rows = {} THEN 1
    ELSE (CHOOSE m \in Ids(rows) : \A i \in Ids(rows) : i <= m) + 1

\* The columns the INSERT leaves to the table's defaults.
ColumnDefaults(rows, now) ==
    [ id |-> NextRowId(rows), created_at |-> now, updated_at |-> now ]

InsertRow(rows, payload, now) ==
    LET d == ColumnDefaults(rows, now) IN
    [ id |-> d.id, title |-> payload.title, content |-> payload.content,
      author |-> payload.author, status |-> payload.status,
      created_at |-> d.created_at, updated_at |-> d.updated_at ]

COALESCE(opt, old) == IF is_some(opt) THEN opt[1] ELSE old

\* Mutant: the content and author parameters bound in each other's place.
UpdateRowSwapped(row, payload, now) ==
    [ id |-> row.id,
      title |-> COALESCE(payload.title, row.title),
      content |-> COALESCE(payload.author, row.content),
      author |-> COALESCE(payload.content, row.author),
      status |-> COALESCE(payload.status, row.status),
      created_at |-> row.created_at,
      updated_at |-> now ]

\* Mutant: the SET list without updated_at = CURRENT_TIMESTAMP.
UpdateRowStale(row, payload, now) ==
    [ id |-> row.id,
      title |-> COALESCE(payload.title, row.title),
      content |-> COALESCE(payload.content, row.content),
      author |-> COALESCE(payload.author, row.author),
      status |-> COALESCE(payload.status, row.status),
      created_at |-> row.created_at,
      updated_at |-> row.updated_at ]

\* Mutant: the SET list refreshing created_at in place of updated_at.
UpdateRowTouchCreated(row, payload, now) ==
    [ id |-> row.id,
      title |-> COALESCE(payload.title, row.title),
      content |-> COALESCE(payload.content, row.content),
      author |-> COALESCE(payload.author, row.author),
      status |-> COALESCE(payload.status, row.status),
      created_at |-> now,
      updated_at |-> row.updated_at ]

UpdateRow(row, payload, now) ==
    [ id |-> row.id,
      title |-> COALESCE(payload.title, row.title),
      content |-> COALESCE(payload.content, row.content),
      author |-> COALESCE(payload.author, row.author),
      status |-> COALESCE(payload.status, row.status),
      created_at |-> row.created_at,
      updated_at |-> now ]

\* fetch_one on the rows a statement returns: the row, or RowNotFound.
fetch_one(rows) ==
    IF rows = {} THEN [ ok |-> FALSE, err |-> "RowNotFound", row |-> << >> ]
    ELSE [ ok |-> TRUE, err |-> "", row |-> << CHOOSE r \in rows : TRUE >> ]

\* Mutant: every sqlx error, RowNotFound too, becomes a DatabaseError.
map_err_all_database(e) == "DatabaseError"

map_err(e) == IF e = "RowNotFound" THEN "NotFound" ELSE "DatabaseError"

\* Mutant: the size of the table in place of the number of rows deleted.
rows_affected_table(rows, id) == Cardinality(rows)

rows_affected(rows, id) == Cardinality({ r \in rows : r.id = id })

(***************************************************************************)
(* Handlers with a single statement.                                       *)
(***************************************************************************)
get_post(id) ==
    LET got == fetch_one({ r \in posts : r.id = id }) IN
    /\ resp' = IF got.ok THEN Success("get", id, None, 200, got.row)
               ELSE Failure("get", id, None, map_err(got.err), "Resource not found")
    /\ UNCHANGED <<posts, clock, pending>>

CreateInvalid(payload) ==
    IF len(payload.title) < 3 THEN "Title must be at least 3 characters"
    ELSE IF is_empty(payload.content) THEN "Content cannot be empty"
    ELSE IF is_empty(payload.author) THEN "Author cannot be empty"
    ELSE ""

create_post(b) ==
    LET payload == CreatePost(b)
        why == CreateInvalid(payload)
        row == InsertRow(posts, payload, clock)
    IN  IF why # ""
        THEN /\ resp' = Failure("create", 0, Some(b), "ValidationError", why)
             /\ UNCHANGED <<posts, clock, pending>>
        ELSE /\ posts' = posts \cup { row }
             /\ resp' = Success("create", row.id, Some(b), 201, << row >>)
             /\ UNCHANGED <<clock, pending>>

UpdateInvalid(payload) ==
    IF is_some(payload.title) /\ len(payload.title[1]) < 3
    THEN "Title must be at least 3 characters"
    ELSE ""

update_post(id, b) ==
    LET payload == UpdatePost(b)
        why == UpdateInvalid(payload)
        hit == { r \in posts : r.id = id }
        new == { UpdateRow(r, payload, clock) : r \in hit }
        got == fetch_one(new)
    IN  IF why # ""
        THEN /\ resp' = Failure("update", id, Some(b), "ValidationError", why)
             /\ UNCHANGED <<posts, clock, pending>>
        ELSE /\ posts' = (posts \ hit) \cup new
             /\ resp' = IF got.ok THEN Success("update", id, Some(b), 200, got.row)
                        ELSE Failure("update", id, Some(b), map_err(got.err),
                                     "Resource not found")
             /\ UNCHANGED <<clock, pending>>

delete_post(id) ==
    /\ posts' = { r \in posts : r.id # id }
    /\ resp' = IF rows_affected(posts, id) = 0
               THEN Failure("delete", id, None, "NotFound", "Resource not found")
               ELSE Success("delete", id, None, 204, << >>)
    /\ UNCHANGED <<clock, pending>>

\* CURRENT_TIMESTAMP moves on; it never runs backwards.
Tick ==
    /\ clock < MaxClock
    /\ clock' = clock + 1
    /\ UNCHANGED <<posts, resp, pending>>

(***************************************************************************)
(* Specification of the single-statement handlers.                         *)
(***************************************************************************)
Init ==
    /\ posts = {}
    /\ clock = 0
    /\ resp = NoResponse
    /\ pending = None

Create == \E b \in CreateBodies :
    /\ NextRowId(posts) <= MaxId
    /\ create_post(b)

Update == \E id \in 1..MaxId, b \in UpdateBodies : update_post(id, b)

Get == \E id \in 1..MaxId : get_post(id)

Delete == \E id \in 1..MaxId : delete_post(id)

Next == Create \/ Update \/ Get \/ Delete \/ Tick

Spec == Init /\ [][Next]_vars

(***************************************************************************)
(* list_posts: two statements with an await between them.                  *)
(***************************************************************************)
\* The query parameters of a list request.
PaginationParams ==
    [ page : { MinInt, 0, 2, MaxInt }, per_page : { 0, 2, MaxInt } ]

max(a, b) == Max(a, b)

clamp(x, lo, hi) == IF x < lo THEN lo ELSE IF x > hi THEN hi ELSE x

fits(x) == MinInt <= x /\ x <= MaxInt

\* Two's complement wrap-around of the integer width.
wrapping(x) == ((x - MinInt) % (2 ^ IntBits)) + MinInt

\* An overflowing multiplication panics with overflow checks on, wraps with them off.
Builds == { "debug", "release" }

\* ORDER BY created_at DESC names no second key: rows that share created_at
\* come in any order.
OrderByCreatedAtDesc(rows) ==
    LET n == Cardinality(rows) IN
    { s \in [1..n -> rows] :
        /\ \A i, j \in 1..n : i # j => s[i] # s[j]
        /\ \A i, j \in 1..n : i < j => s[i].created_at >= s[j].created_at }

\* Mutant: per_page and offset bound in each other's place.
LimitOffsetSwapped(s, limit, offset) ==
    LET o == Max(limit, 0)
        last == IF offset < 0 THEN Len(s) ELSE Min(Len(s), o + offset)
    IN  IF o >= Len(s) THEN << >> ELSE SubSeq(s, o + 1, last)

\* LIMIT ? OFFSET ?: a negative offset counts as 0, a negative limit as no limit.
LimitOffset(s, limit, offset) ==
    LET o == Max(offset, 0)
        last == IF limit < 0 THEN Len(s) ELSE Min(Len(s), o + limit)
    IN  IF o >= Len(s) THEN << >> ELSE SubSeq(s, o + 1, last)

Panic(op) ==
    [ op |-> op, id |-> 0, req |-> None, status |-> 0,
      error |-> "panic", msg |-> "attempt to multiply with overflow",
      body |-> << >>, paging |-> NoPage ]

CountRows(rows) == Cardinality(rows)

\* Lines 19-32: normalise the parameters, compute the offset, run the SELECT.
list_posts_select(params, build) ==
    LET page == max(params.page, 1)
        per_page == clamp(params.per_page, 1, 100)
        product == (page - 1) * per_page
    IN  /\ pending = None
        /\ IF ~fits(product) /\ build = "debug"
           THEN /\ resp' = Panic("list")
                /\ UNCHANGED <<posts, clock, pending>>
           ELSE \E s \in OrderByCreatedAtDesc(posts) :
                /\ pending' = Some([ page |-> page, per_page |-> per_page,
                                     offset |-> wrapping(product),
                                     data |-> LimitOffset(s, per_page, wrapping(product)) ])
                /\ UNCHANGED <<posts, clock, resp>>

\* Lines 34-43: run the COUNT and answer.
list_posts_count ==
    /\ pending # None
    /\ resp' = [ op |-> "list", id |-> 0, req |-> None, status |-> 200,
                 error |-> "", msg |-> "", body |-> pending[1].data,
                 paging |-> [ page |-> pending[1].page,
                              per_page |-> pending[1].per_page,
                              total |-> CountRows(posts) ] ]
    /\ pending' = None
    /\ UNCHANGED <<posts, clock>>

(***************************************************************************)
(* Specification of list requests running beside creates and deletes.      *)
(***************************************************************************)
ListBodies ==
    { Body(Some(LongTitle), Some(<<"x">>), Some(<<"y">>), None) }

ListCreate == \E b \in ListBodies :
    /\ NextRowId(posts) <= MaxListId
    /\ create_post(b)

ListDelete == \E id \in 1..MaxListId : delete_post(id)

ListSelect == \E params \in PaginationParams, build \in Builds :
    list_posts_select(params, build)

ListCount == list_posts_count

NextList == ListCreate \/ ListDelete \/ ListSelect \/ ListCount \/ Tick

SpecList == Init /\ [][NextList]_vars

(***************************************************************************)
(* Vocabulary of the properties.                                           *)
(***************************************************************************)
\* The number of characters of a string, whatever their width in bytes.
chars_count(s) == Len(s)

RowById(rows, id) == CHOOSE r \in rows : r.id = id

\* This step is a handler of kind op answering a request.
Handled(op) == resp'.op = op /\ (resp' # resp \/ posts' # posts)

UpdateSucceeded == Handled("update") /\ resp'.status = 200

Field(opt, prior) == IF opt = None THEN prior ELSE opt[1]

OthersUntouched(id) ==
    /\ \A r \in posts : r.id # id => r \in posts'
    /\ \A r \in posts' : r.id # id => r \in posts

(***************************************************************************)
(* C1: a successful update gives every field of the body that is present   *)
(* the supplied value, keeps every absent one, keeps id and created_at,    *)
(* and changes no other post.                                              *)
(***************************************************************************)
C1_PartialUpdateFrame ==
    [][ UpdateSucceeded =>
          LET id == resp'.id
              b == resp'.req[1]
              old == RowById(posts, id)
              new == RowById(posts', id)
          IN  /\ id \in Ids(posts) /\ id \in Ids(posts')
              /\ new.title = Field(b.title, old.title)
              /\ new.content = Field(b.content, old.content)
              /\ new.author = Field(b.author, old.author)
              /\ new.status = Field(b.status, old.status)
              /\ new.id = old.id
              /\ new.created_at = old.created_at
              /\ resp'.body = << new >>
              /\ OthersUntouched(id) ]_vars

\* An update that carried content but no title has run beside a second post.
C1_Witness ==
    /\ resp.op = "update" /\ resp.status = 200
    /\ resp.req[1].title = None /\ resp.req[1].content # None
    /\ resp.req[1].author = None
    /\ resp.body[1].title = AccentTitle /\ resp.body[1].content = << >>
    /\ resp.body[1].author = <<"y">>
    /\ Cardinality(posts) = 2

(***************************************************************************)
(* C2: every stored post has a title of at least 3 characters, a           *)
(* non-empty content and a non-empty author.                               *)
(***************************************************************************)
C2_StoredPostsValid ==
    \A r \in posts :
        /\ chars_count(r.title) >= 3
        /\ chars_count(r.content) > 0
        /\ chars_count(r.author) > 0

\* The part of C2 about content and author alone.
C2_StoredTextNonEmpty ==
    \A r \in posts : chars_count(r.content) > 0 /\ chars_count(r.author) > 0

(***************************************************************************)
(* C4: a create whose title has fewer than 3 characters, or whose content  *)
(* or author is empty, is answered 400 ValidationError and leaves the      *)
(* store alone; every other create passes validation.                      *)
(***************************************************************************)
C4_CreateValidation ==
    [][ Handled("create") =>
          LET p == CreatePost(resp'.req[1])
              bad == \/ chars_count(p.title) < 3
                     \/ chars_count(p.content) = 0
                     \/ chars_count(p.author) = 0
          IN  IF bad
              THEN /\ resp'.status = 400 /\ resp'.error = "ValidationError"
                   /\ posts' = posts
              ELSE resp'.error # "ValidationError" ]_vars

(***************************************************************************)
(* C6: deleting an id that is present removes exactly that post and is     *)
(* answered 204; deleting an id that is absent is answered 404 and leaves  *)
(* the store alone; an id that is absent stays absent until a create.      *)
(***************************************************************************)
C6_DeleteTwice ==
    [][ /\ Handled("delete") =>
              IF resp'.id \in Ids(posts)
              THEN /\ resp'.status = 204
                   /\ resp'.id \notin Ids(posts')
                   /\ OthersUntouched(resp'.id)
              ELSE /\ resp'.status = 404 /\ resp'.error = "NotFound"
                   /\ posts' = posts
        /\ \A id \in Ids(posts') \ Ids(posts) :
              resp'.op = "create" /\ resp'.status = 201 /\ resp'.id = id ]_vars

\* Post 1 is gone, post 2 is still there, and a delete of 1 was answered 404.
C6_Witness ==
    /\ resp.op = "delete" /\ resp.status = 404 /\ resp.id = 1
    /\ Ids(posts) = { 2 }

(***************************************************************************)
(* C7 as stated: every successful update makes updated_at strictly greater *)
(* than it was.                                                            *)
(***************************************************************************)
C7_StrictlyGreater ==
    [][ UpdateSucceeded =>
          RowById(posts', resp'.id).updated_at > RowById(posts, resp'.id).updated_at
      ]_vars

(***************************************************************************)
(* C7 amended: every successful update sets updated_at to the current      *)
(* clock reading, which is never less than the value before and is         *)
(* strictly greater exactly when the clock has advanced past that value.   *)
(***************************************************************************)
C7_RefreshedToClock ==
    [][ UpdateSucceeded =>
          LET old == RowById(posts, resp'.id)
              new == RowById(posts', resp'.id)
          IN  /\ new.updated_at = clock
              /\ new.updated_at >= old.updated_at
              /\ (new.updated_at > old.updated_at) <=> (clock > old.updated_at)
      ]_vars

\* An update has succeeded at the clock reading of the post's creation.
C7_Witness ==
    /\ resp.op = "update" /\ resp.status = 200
    /\ resp.body[1].updated_at = resp.body[1].created_at
    /\ resp.body[1].content = << >>

(***************************************************************************)
(* C8: created_at <= updated_at for every stored post, and a post keeps    *)
(* its id and its created_at from creation to deletion.                    *)
(***************************************************************************)
C8_TimestampOrder ==
    /\ [](\A r \in posts : r.created_at <= r.updated_at)
    /\ [][ \A r \in posts :
             \/ \E n \in posts' : n.id = r.id /\ n.created_at = r.created_at
             \/ /\ resp'.op = "delete" /\ resp'.status = 204 /\ resp'.id = r.id
                /\ r.id \notin Ids(posts') ]_vars

\* A post updated after the clock moved on.
C8_Witness ==
    \E r \in posts : r.created_at < r.updated_at /\ resp.op = "update"

(***************************************************************************)
(* C9: a get, an update with a valid body, or a delete of an id that is    *)
(* not stored is answered 404 NotFound, not 500, and leaves the store      *)
(* alone.                                                                  *)
(***************************************************************************)
ValidUpdateBody(b) == b.title = None \/ chars_count(b.title[1]) >= 3

C9_AbsentIdNotFound ==
    [][ \A op \in { "get", "update", "delete" } :
          ( /\ Handled(op)
            /\ resp'.id \notin Ids(posts)
            /\ (op = "update" => ValidUpdateBody(resp'.req[1])) )
          => /\ resp'.status = 404
             /\ resp'.error = "NotFound"
             /\ posts' = posts ]_vars

\* A valid update of an id that is not stored, beside a post that is.
C9_Witness ==
    /\ resp.op = "update" /\ resp.status = 404
    /\ resp.req[1].title = Some(LongTitle)
    /\ posts # {} /\ resp.id \notin Ids(posts)

(***************************************************************************)
(* Vocabulary of the list properties.                                      *)
(***************************************************************************)
SelectStep == pending = None /\ pending' # None

CountStep == pending # None /\ pending' = None

\* The rows newest first, rows of one created_at by id descending.
NewestFirst(rows) ==
    CHOOSE s \in OrderByCreatedAtDesc(rows) :
        \A i, j \in 1..Len(s) :
            (i < j /\ s[i].created_at = s[j].created_at) => s[i].id > s[j].id

ExactOffset(q) == (q.page - 1) * q.per_page

(***************************************************************************)
(* C3: the SELECT of list_posts returns the window [offset, offset +       *)
(* per_page) of the rows ordered by created_at descending, then id         *)
(* descending, and the COUNT returns the number of rows of the table.      *)
(* Requests whose offset overflows are left to C5.                         *)
(***************************************************************************)
C3_NewestFirstWindow ==
    [][ /\ (SelectStep /\ fits(ExactOffset(pending'[1]))) =>
              pending'[1].data =
                  LimitOffset(NewestFirst(posts), pending'[1].per_page,
                              ExactOffset(pending'[1]))
        /\ CountStep => resp'.paging.total = Cardinality(posts) ]_vars

(***************************************************************************)
(* C5: list_posts uses a page >= 1 and a per_page in 1..100, and hands the *)
(* store the offset (page - 1) * per_page, which is not negative.          *)
(***************************************************************************)
C5_OffsetIsProduct ==
    /\ resp.error # "panic"
    /\ pending # None =>
          /\ pending[1].page >= 1
          /\ pending[1].per_page >= 1 /\ pending[1].per_page <= 100
          /\ pending[1].offset >= 0
          /\ pending[1].offset = ExactOffset(pending[1])

\* The part of C5 about the clamped parameters alone.
C5_ClampedParameters ==
    pending # None =>
        /\ pending[1].page >= 1
        /\ pending[1].per_page >= 1 /\ pending[1].per_page <= 100

(***************************************************************************)
(* C10 as stated: a list response is the requested window and the row      *)
(* count of one state of the store, so it never holds more items than      *)
(* total and holds min(per_page, max(0, total - offset)) items.  Requests   *)
(* whose offset overflows are left to C5.                                  *)
(***************************************************************************)
C10_OneStateOfTheStore ==
    (resp.op = "list" /\ resp.status = 200 /\ fits(ExactOffset(resp.paging))) =>
        /\ Len(resp.body) <= resp.paging.total
        /\ Len(resp.body) =
              Min(resp.paging.per_page,
                  Max(0, resp.paging.total - ExactOffset(resp.paging)))

(***************************************************************************)
(* C10 amended: the data of a list response is the requested window of the *)
(* store as it was when the SELECT ran, and total is the row count of the  *)
(* store as it is when the COUNT runs; the response never holds more than  *)
(* per_page items.  The window is a run of the rows ordered by created_at  *)
(* descending that skips offset rows, a negative offset counting as 0.     *)
(***************************************************************************)
C10_WindowThenCount ==
    [][ /\ SelectStep =>
              LET q == pending'[1] IN
              /\ Len(q.data) =
                    Min(q.per_page, Max(0, Cardinality(posts) - Max(q.offset, 0)))
              /\ \A i \in 1..Len(q.data) : q.data[i] \in posts
              /\ \A i, j \in 1..Len(q.data) :
                    i < j => /\ q.data[i] # q.data[j]
                             /\ q.data[i].created_at >= q.data[j].created_at
              /\ Len(q.data) > 0 =>
                    LET out == { r \in posts : \A i \in 1..Len(q.data) : q.data[i] # r }
                        first == q.data[1].created_at
                        last == q.data[Len(q.data)].created_at
                        skipped == Max(q.offset, 0)
                    IN  /\ Cardinality({ r \in out : r.created_at > first }) <= skipped
                        /\ Cardinality({ r \in out : r.created_at >= first }) >= skipped
                        /\ Cardinality({ r \in out : r.created_at <= last })
                              >= Cardinality(posts) - skipped - Len(q.data)
        /\ CountStep =>
              /\ resp'.op = "list" /\ resp'.status = 200
              /\ resp'.body = pending[1].data
              /\ resp'.paging.total = Cardinality(posts)
              /\ resp'.paging.page = pending[1].page
              /\ resp'.paging.per_page = pending[1].per_page
              /\ Len(resp'.body) <= resp'.paging.per_page ]_vars

\* A list response whose data holds more rows than its total counts.
C10_Witness ==
    /\ resp.op = "list" /\ resp.status = 200
    /\ Len(resp.body) > resp.paging.total

====
